---- MODULE Spec2Model ----
(***************************************************************************)
(* Model of the imager background-removal editor: the webview script       *)
(* media/editor.js (mask editor: stroke buffer, commit, flatten) and the   *)
(* host side of extension.js that opens the editor panel, posts 'init'     *)
(* and saves or discards the result.                                       *)
(*                                                                         *)
(* Rasters are modelled as one scan line of pixels: a canvas is a record   *)
(* [w, h, px] with px the alpha (0..255) of the pixels 0..w-1 of the line  *)
(* through the pointer.  Pointer positions are kept doubled (x2 = 2x), so  *)
(* that pixel centres (x = i + 0.5) and half brush widths stay integers.   *)
(***************************************************************************)
EXTENDS Integers, Sequences, FiniteSets, TLC

VARIABLES
  originalImg,   \* editor.js:14  id of the decoded original image, or "null"
  cutoutImg,     \* editor.js:15  id of the decoded cutout image, or "null"
  bgImg,         \* editor.js:16  id of the background image, or "null"
  canvas,        \* editor.js:3   display canvas [w, h, px]
  offCanvas,     \* editor.js:20  compositing scratch canvas size [w, h]
  maskCanvas,    \* editor.js:18  committed mask [w, h, px]
  strokeCanvas,  \* editor.js:23  in-progress stroke buffer [w, h, px]
  brushSize,     \* editor.js:26
  brushSlider,   \* editor.js:8   value of the <input id="brush"> slider
  mode,          \* editor.js:27  "erase" or "restore"
  drawing,       \* editor.js:28
  lastX,         \* editor.js:29  (doubled)
  hoverX,        \* editor.js:30  <<x>> (doubled), or <<>> for null
  initPending,   \* 'init' handlers suspended at an await: [orig, cutout] counts
  errorLogged,   \* editor.js:284 console.error('Failed to init images') has run
  bgPending,     \* set of the background files whose load has not settled yet
  webview,       \* "loading" (script not run yet), "live", "gone" (panel disposed)
  toWebview,     \* 'init' messages posted by the host, not yet delivered
  toHost,        \* messages posted by the webview, not yet delivered
  payload,       \* the session's init payload [original, cutout]
  cmd,           \* host command that opened the panel: "removeBg" or "edit"
  hostPc,        \* "starting" (no listener yet), "listening", "disposed"
  saveTasks,     \* accept handlers of the host suspended at an await
  files,         \* names of the files that exist in the output directory
  saved,         \* sequence of the files the host has written
  gestures,      \* number of gestures begun (bounds the model)
  maskAtBegin,   \* history: the mask's pixels when the gesture in progress began
  modeAtBegin,   \* history: the mode when the last gesture began ("none": no gesture yet)
  cancelIssued,  \* history: a cancel click has posted 'cancelEdit'
  bgFailed,      \* history: the decode of a background file has failed
  lastBgRequest  \* history: the user's last background request, a file or "null"

vars == <<originalImg, cutoutImg, bgImg, canvas, offCanvas, maskCanvas,
          strokeCanvas, brushSize, brushSlider, mode, drawing, lastX, hoverX,
          initPending, errorLogged, bgPending, webview, toWebview, toHost,
          payload, cmd,
          hostPc, saveTasks, files, saved, gestures, maskAtBegin, modeAtBegin,
          cancelIssued, bgFailed, lastBgRequest>>

webviewVars == <<originalImg, cutoutImg, bgImg, canvas, offCanvas, maskCanvas,
                 strokeCanvas, brushSize, brushSlider, mode, drawing, lastX,
                 hoverX, initPending, errorLogged, bgPending, gestures,
                 maskAtBegin, modeAtBegin, bgFailed, lastBgRequest>>

hostVars == <<hostPc, saveTasks, files, saved>>

----------------------------------------------------------------------------
(* Bounds of the model *)

\* gestures begun in a session
MaxGestures == 1
\* results the host has not finished with (posted, or being saved)
MaxAccepts == 2

----------------------------------------------------------------------------
(* Numbers and pixels *)

Opaque == 255

Min(a, b) == IF a <= b THEN a ELSE b
Max(a, b) == IF a >= b THEN a ELSE b

\* a * b / 255 rounded to the nearest integer: 8-bit alpha multiplication
MulAlpha(a, b) == (a * b + 127) \div Opaque

Pixels(w) == 0 .. (w - 1)

Transparent(w) == [x \in Pixels(w) |-> 0]

\* canvas compositing, per pixel, destination alpha d and source alpha s
SourceOver(d, s) == s + MulAlpha(d, Opaque - s)
DestinationOut(d, s) == MulAlpha(d, Opaque - s)
DestinationIn(d, s) == MulAlpha(d, s)
SourceIn(d, s) == MulAlpha(s, d)

\* alpha of pixel x of a canvas drawn at 0,0 without scaling
AlphaAt(cv, x) == IF x \in DOMAIN cv.px THEN cv.px[x] ELSE 0

----------------------------------------------------------------------------
(* The images of the model: [w, h, c, a], c the colour and a the alpha of  *)
(* each pixel of the scan line.                                            *)

Img(id) ==
  CASE id = "photo"   -> [w |-> 8, h |-> 2,
                          c |-> <<1, 2, 3, 4, 5, 6, 7, 8>>,
                          a |-> <<255, 255, 255, 255, 255, 255, 255, 255>>]
    [] id = "cutout"  -> [w |-> 4, h |-> 1,
                          c |-> <<1, 3, 5, 7>>,
                          a |-> <<255, 128, 0, 0>>]
    [] id = "sky"     -> [w |-> 2, h |-> 1,
                          c |-> <<21, 22>>,
                          a |-> <<255, 255>>]

\* data URLs that decode to an image; any other data URL makes the decode fail
Decodable == {"photo", "cutout", "sky"}


\* the init payloads of the model: the data URLs of the original and of the cutout
Payloads ==
  { [original |-> "photo", cutout |-> "cutout"],
    [original |-> "photo", cutout |-> "corrupt"],
    [original |-> "corrupt", cutout |-> "cutout"] }

\* the files the user can pick as a new background
BgFiles == {"sky", "corrupt"}

\* values the brush slider can be set to
SliderValues == {<<"4">>}

\* arguments of setBrushDiameter beyond what the slider offers: integers in
\* and out of [1, 400], integers beyond 32 bits, and texts that are no number
BrushTexts ==
  SliderValues \cup
  { <<"5", "0", "0">>, <<"4", "0", "0">>, <<"4", "0", "1">>, <<"2", "0", "0">>,
    <<"3">>, <<"1">>, <<"0">>, <<"-", "7">>, <<"+", "9">>, <<" ", "4", "2">>,
    <<"1", "2", "p", "x">>, <<>>, <<"a">>, <<"-">>,
    <<"2", "1", "4", "7", "4", "8", "3", "6", "4", "8">>,
    <<"4", "2", "9", "4", "9", "6", "7", "7", "9", "6">>,
    <<"4", "2", "9", "4", "9", "6", "7", "2", "9", "7">>,
    <<"-", "4", "2", "9", "4", "9", "6", "7", "0", "9", "6">> }

\* size of a canvas element before its width and height are first set
DefaultSize == [w |-> 2, h |-> 1]

\* pointer positions (doubled): the centre of the first and of the last pixel
PointerXs(w) == {1, 2 * w - 1}

----------------------------------------------------------------------------
(* Pure functions of editor.js *)

\* pixel of img under destination pixel x when img is drawn scaled to width w
ScaledIndex(img, x, w) == (((2 * x + 1) * img.w) \div (2 * w)) + 1

\* a pixel of the display canvas: what lies under the image (background or
\* checkerboard with the tint over it, c its colour and a its alpha), the
\* masked original fg, and the colour of the brush cursor over it
BlankPixel ==
  [under |-> [c |-> 0, a |-> 0], fg |-> [c |-> 0, a |-> 0], cursor |-> "none"]

\* the display canvas after its width or height was set: cleared
Blank(w) == [x \in Pixels(w) |-> BlankPixel]

\* variant of resizeCanvases that leaves the stroke buffer at its first size
resizeCanvasesStaleStroke(w, h) ==
  [canvas |-> [w |-> w, h |-> h, px |-> Blank(w)],
   maskCanvas |-> [w |-> w, h |-> h, px |-> Transparent(w)],
   offCanvas |-> [w |-> w, h |-> h],
   strokeCanvas |-> [w |-> DefaultSize.w, h |-> DefaultSize.h,
                     px |-> Transparent(DefaultSize.w)]]

\* editor.js:42 resizeCanvases: setting width/height clears a canvas
resizeCanvases(w, h) ==
  [canvas |-> [w |-> w, h |-> h, px |-> Blank(w)],
   maskCanvas |-> [w |-> w, h |-> h, px |-> Transparent(w)],
   offCanvas |-> [w |-> w, h |-> h],
   strokeCanvas |-> [w |-> w, h |-> h, px |-> Transparent(w)]]

\* variant of initMaskFromCutout that fills the mask with plain source-over
initMaskFromCutoutFilled(mask, id) ==
  [mask EXCEPT !.px = [x \in Pixels(mask.w) |-> SourceOver(mask.px[x], Opaque)]]

\* editor.js:51 initMaskFromCutout: clear, draw the cutout scaled to the mask,
\* then fill white with source-in, which keeps the alpha already there
initMaskFromCutout(mask, id) ==
  LET img == Img(id)
      drawn == [x \in Pixels(mask.w) |->
                  SourceOver(0, img.a[ScaledIndex(img, x, mask.w)])]
  IN [mask EXCEPT !.px = [x \in Pixels(mask.w) |-> SourceIn(drawn[x], Opaque)]]

\* A number of the script is NaN or an integer sign * (hi * 2^16 + lo), kept
\* in two halves so that integers beyond 32 bits can be written.
HalfWord == 65536

NaN == [nan |-> TRUE, neg |-> FALSE, hi |-> 0, lo |-> 0]

\* the characters parseInt reads as decimal digits
Digits == {"0", "1", "2", "3", "4", "5", "6", "7", "8", "9"}

DigitValue(c) ==
  CASE c = "0" -> 0 [] c = "1" -> 1 [] c = "2" -> 2 [] c = "3" -> 3
    [] c = "4" -> 4 [] c = "5" -> 5 [] c = "6" -> 6 [] c = "7" -> 7
    [] c = "8" -> 8 [] c = "9" -> 9

\* the number read from the leading decimal digits of text, n being the
\* number read so far
RECURSIVE ParseDigits(_, _)
ParseDigits(text, n) ==
  IF text = <<>> \/ Head(text) \notin Digits
  THEN n
  ELSE LET low == n.lo * 10 + DigitValue(Head(text))
       IN ParseDigits(Tail(text),
                      [n EXCEPT !.lo = low % HalfWord,
                                !.hi = n.hi * 10 + low \div HalfWord])

\* text without its leading blanks
RECURSIVE TrimStart(_)
TrimStart(text) ==
  IF text # <<>> /\ Head(text) = " " THEN TrimStart(Tail(text)) ELSE text

\* editor.js:179, 281 parseInt(text, 10): blanks, a sign, then decimal digits
\* up to the first other character; NaN when there is no digit
parseInt(text) ==
  LET t == TrimStart(text)
      signed == t # <<>> /\ Head(t) \in {"-", "+"}
      body == IF signed THEN Tail(t) ELSE t
  IN IF body = <<>> \/ Head(body) \notin Digits
     THEN NaN
     ELSE ParseDigits(body, [nan |-> FALSE, neg |-> signed /\ Head(t) = "-",
                             hi |-> 0, lo |-> 0])

\* size|0 of editor.js:69: NaN gives 0, an integer is taken modulo 2^32 into
\* [-2^31, 2^31 - 1]
ToInt32(v) ==
  IF v.nan
  THEN 0
  ELSE LET h == v.hi % HalfWord
           \* the two halves of the two's complement of a negative number
           lo == IF v.neg THEN (HalfWord - v.lo) % HalfWord ELSE v.lo
           hi == IF v.neg
                 THEN (HalfWord - 1 - h + (IF v.lo = 0 THEN 1 ELSE 0)) % HalfWord
                 ELSE h
       IN (IF 2 * hi >= HalfWord THEN hi - HalfWord ELSE hi) * HalfWord + lo

\* variant of setBrush without the upper limit
setBrushNoUpperLimit(size) == Max(1, ToInt32(size))

\* editor.js:69 setBrush
setBrush(size) == Max(1, Min(400, ToInt32(size)))

\* alpha with which a stroke from x0 to x1 (doubled) of width `width` covers
\* pixel x: the part of the pixel inside [min - width/2, max + width/2]
Coverage(x, x0, x1, width) ==
  LET lo == Max(Min(x0, x1) - width, 2 * x)
      hi == Min(Max(x0, x1) + width, 2 * x + 2)
  IN IF hi <= lo THEN 0 ELSE IF hi - lo >= 2 THEN Opaque ELSE 128

\* variant of drawStroke that draws every segment with the width 4
drawStrokeFixedWidth(stroke, x0, x1, width) ==
  [stroke EXCEPT !.px = [x \in Pixels(stroke.w) |->
      SourceOver(stroke.px[x], Coverage(x, x0, x1, 4))]]

\* editor.js:78 drawStroke: a white round-capped line, source-over
drawStroke(stroke, x0, x1, width) ==
  [stroke EXCEPT !.px = [x \in Pixels(stroke.w) |->
      SourceOver(stroke.px[x], Coverage(x, x0, x1, width))]]

\* editor.js:212 strokeCtx.clearRect over the whole canvas
clearStroke(stroke) == [stroke EXCEPT !.px = Transparent(stroke.w)]

\* editor.js:200-211 the mask after the stroke buffer is applied to it
\* variant of commitStroke with the two composite operations exchanged
commitStrokeSwapped(mask, stroke, m) ==
  [mask EXCEPT !.px = [x \in Pixels(mask.w) |->
      IF m = "erase"
      THEN SourceOver(mask.px[x], AlphaAt(stroke, x))
      ELSE DestinationOut(mask.px[x], AlphaAt(stroke, x))]]

commitStroke(mask, stroke, m) ==
  [mask EXCEPT !.px = [x \in Pixels(mask.w) |->
      IF m = "erase"
      THEN DestinationOut(mask.px[x], AlphaAt(stroke, x))
      ELSE SourceOver(mask.px[x], AlphaAt(stroke, x))]]

\* editor.js:169 coverRect, as the source pixel shown at destination pixel x:
\* r = max(dstW/srcW, dstH/srcH) = n/d, the drawn image is centred
CoverIndex(src, x, dstW, dstH) ==
  LET wide == dstW * src.h >= dstH * src.w
      n == IF wide THEN dstW ELSE dstH
      d == IF wide THEN src.w ELSE src.h
  IN (((2 * x + 1 - dstW) * d + src.w * n) \div (2 * n)) + 1


----------------------------------------------------------------------------
(* Flatten: the image built by the accept handler, editor.js:234-260 *)

\* editor.js:244-247 the optional background, cover-scaled: colour of pixel x
BackgroundAt(bg, x, w, h) ==
  IF bg = "null" THEN 0 ELSE Img(bg).c[CoverIndex(Img(bg), x, w, h)]

\* editor.js:250-257 the original scaled to the output, kept where the mask is:
\* [c, a] of pixel x.  The colour of a fully transparent pixel is not part of
\* the result.
MaskedOriginalAt(orig, mask, x, w) ==
  LET img == Img(orig)
      i == ScaledIndex(img, x, w)
      a == DestinationIn(img.a[i], AlphaAt(mask, x))
  IN [c |-> IF a = 0 THEN 0 ELSE img.c[i], a |-> a]

\* variant of Flatten that applies the stroke in progress to the mask first,
\* as the live preview of composeAndRender does
FlattenWithPreview(s) ==
  LET m == IF s.drawing
           THEN commitStroke(s.maskCanvas, s.strokeCanvas, s.mode)
           ELSE s.maskCanvas
  IN [x \in Pixels(s.canvas.w) |->
       [bg |-> BackgroundAt(s.bgImg, x, s.canvas.w, s.canvas.h),
        fg |-> MaskedOriginalAt(s.originalImg, m, x, s.canvas.w)]]

\* the PNG handed to the host: per pixel the background colour (0: none) and
\* the masked original drawn over it
Flatten(s) ==
  [x \in Pixels(s.canvas.w) |->
     [bg |-> BackgroundAt(s.bgImg, x, s.canvas.w, s.canvas.h),
      fg |-> MaskedOriginalAt(s.originalImg, s.maskCanvas, x, s.canvas.w)]]

\* the state the handlers of editor.js read
EditorState ==
  [originalImg |-> originalImg, bgImg |-> bgImg, canvas |-> canvas,
   maskCanvas |-> maskCanvas, strokeCanvas |-> strokeCanvas,
   brushSize |-> brushSize, mode |-> mode, drawing |-> drawing,
   hoverX |-> hoverX]

\* editor.js:158-167 drawCheckerboard: the grey level of the tile of pixel x
\* in the first row of tiles
CheckerSize == 16

drawCheckerboard(x) ==
  IF (x \div CheckerSize) % 2 = 0 THEN 224 ELSE 255

\* variant of composeAndRender without the live preview of 131-149 (and of
\* 114-117): the stroke in progress is not shown
composeAndRenderCommitted(s) ==
  LET w == s.canvas.w
      underAt(x) ==
        LET a == DestinationOut(Opaque, AlphaAt(s.maskCanvas, x))
            c == IF s.bgImg = "null"
                 THEN drawCheckerboard(x)
                 ELSE BackgroundAt(s.bgImg, x, w, s.canvas.h)
        IN [c |-> IF a = 0 THEN 0 ELSE c, a |-> a]
      fgAt(x) ==
        IF s.originalImg = "null"
        THEN [c |-> 0, a |-> 0]
        ELSE MaskedOriginalAt(s.originalImg, s.maskCanvas, x, w)
      cursorAt(x) ==
        IF s.hoverX # <<>>
           /\ Coverage(x, s.hoverX[1], s.hoverX[1], s.brushSize) > 0
        THEN (IF s.mode = "erase" THEN "red" ELSE "green")
        ELSE "none"
  IN [s.canvas EXCEPT !.px = [x \in Pixels(w) |->
        [under |-> underAt(x), fg |-> fgAt(x), cursor |-> cursorAt(x)]]]

\* editor.js:94-156 with the wrapper of 301-313: the display canvas painted
\* from the state s
composeAndRender(s) ==
  LET w == s.canvas.w
      preview == s.drawing /\ s.mode = "restore"
      \* 98-118: background or checkerboard, the tint over all of it, then
      \* knocked out where the mask (and a restoring stroke) has alpha
      underAt(x) ==
        LET kept == DestinationOut(Opaque, AlphaAt(s.maskCanvas, x))
            a == IF preview
                 THEN DestinationOut(kept, AlphaAt(s.strokeCanvas, x))
                 ELSE kept
            c == IF s.bgImg = "null"
                 THEN drawCheckerboard(x)
                 ELSE BackgroundAt(s.bgImg, x, w, s.canvas.h)
        IN [c |-> IF a = 0 THEN 0 ELSE c, a |-> a]
      \* 120-153: the original kept where the mask is, with the stroke in
      \* progress punched out (erase) or added from the original (restore)
      fgAt(x) ==
        IF s.originalImg = "null"
        THEN [c |-> 0, a |-> 0]
        ELSE LET img == Img(s.originalImg)
                 i == ScaledIndex(img, x, w)
                 masked == DestinationIn(img.a[i], AlphaAt(s.maskCanvas, x))
                 stroke == AlphaAt(s.strokeCanvas, x)
                 a == IF ~s.drawing THEN masked
                      ELSE IF s.mode = "erase"
                      THEN DestinationOut(masked, stroke)
                      ELSE SourceOver(masked, DestinationIn(img.a[i], stroke))
             IN [c |-> IF a = 0 THEN 0 ELSE img.c[i], a |-> a]
      \* 304-312: the brush circle at the hover position
      cursorAt(x) ==
        IF s.hoverX # <<>>
           /\ Coverage(x, s.hoverX[1], s.hoverX[1], s.brushSize) > 0
        THEN (IF s.mode = "erase" THEN "red" ELSE "green")
        ELSE "none"
  IN [s.canvas EXCEPT !.px = [x \in Pixels(w) |->
        [under |-> underAt(x), fg |-> fgAt(x), cursor |-> cursorAt(x)]]]

----------------------------------------------------------------------------
(* Initial state: the panel has been created and its html set; the script   *)
(* has not run yet; the host is reading the file and calling remove.bg.     *)

Init ==
  /\ originalImg = "null"
  /\ cutoutImg = "null"
  /\ bgImg = "null"
  /\ canvas = [w |-> DefaultSize.w, h |-> DefaultSize.h,
               px |-> Blank(DefaultSize.w)]
  /\ offCanvas = DefaultSize
  /\ maskCanvas = [w |-> DefaultSize.w, h |-> DefaultSize.h,
                   px |-> Transparent(DefaultSize.w)]
  /\ strokeCanvas = [w |-> DefaultSize.w, h |-> DefaultSize.h,
                     px |-> Transparent(DefaultSize.w)]
  /\ brushSize = 40
  /\ brushSlider = <<"4", "0">>
  /\ mode = "erase"
  /\ drawing = FALSE
  /\ lastX = 0
  /\ hoverX = <<>>
  /\ initPending = [orig |-> 0, cutout |-> 0]
  /\ errorLogged = FALSE
  /\ bgPending = {}
  /\ webview = "loading"
  /\ toWebview = 0
  /\ toHost = <<>>
  /\ payload \in Payloads
  /\ cmd \in {"removeBg", "edit"}
  /\ hostPc = "starting"
  /\ saveTasks = <<>>
  /\ files = {}
  /\ saved = <<>>
  /\ gestures = 0
  /\ maskAtBegin = <<>>
  /\ modeAtBegin = "none"
  /\ cancelIssued = FALSE
  /\ bgFailed = FALSE
  /\ lastBgRequest = "null"


----------------------------------------------------------------------------
(* The webview: handlers of editor.js.  A handler that calls                *)
(* composeAndRender() paints the display canvas from the state it leaves.   *)

Post(m) == toHost' = Append(toHost, m)

\* editor.js:269 window 'load': the script has run, 'ready' is posted
WebviewLoad ==
  /\ webview = "loading"
  /\ webview' = "live"
  /\ Post([type |-> "ready"])
  /\ UNCHANGED <<webviewVars, toWebview, payload, cmd, hostVars, cancelIssued>>

\* editor.js:272-275 an 'init' message arrives: the handler starts to decode
\* the original and is suspended
InitMessage ==
  /\ webview = "live"
  /\ toWebview > 0
  /\ toWebview' = toWebview - 1
  /\ initPending' = [initPending EXCEPT !.orig = @ + 1]
  /\ UNCHANGED <<originalImg, cutoutImg, bgImg, canvas, offCanvas, maskCanvas,
                 strokeCanvas, brushSize, brushSlider, mode, drawing, lastX,
                 hoverX, bgPending, gestures, maskAtBegin, modeAtBegin, webview, toHost,
                 payload, cmd, hostVars, cancelIssued, lastBgRequest,
                 errorLogged, bgFailed>>

\* editor.js:276-277 the original's decode settles: originalImg is assigned and
\* the handler is suspended on the cutout, or the decode fails and the catch
\* of editor.js:283 logs to the console
OriginalDecoded ==
  /\ webview = "live"
  /\ initPending.orig > 0
  /\ IF payload.original \in Decodable
     THEN /\ originalImg' = payload.original
          /\ initPending' = [orig |-> initPending.orig - 1,
                             cutout |-> initPending.cutout + 1]
          /\ UNCHANGED errorLogged
     ELSE /\ initPending' = [initPending EXCEPT !.orig = @ - 1]
          /\ errorLogged' = TRUE
          /\ UNCHANGED originalImg
  /\ UNCHANGED <<cutoutImg, bgImg, canvas, offCanvas, maskCanvas,
                 strokeCanvas, brushSize, brushSlider, mode, drawing, lastX,
                 hoverX, bgPending, gestures, maskAtBegin, modeAtBegin, webview, toWebview,
                 toHost, payload, cmd, hostVars, cancelIssued, lastBgRequest, bgFailed>>

\* editor.js:277-282 the cutout's decode settles: the canvases are resized to
\* the cutout, the mask is seeded, mode and brush are set; or the decode fails
CutoutDecoded ==
  /\ webview = "live"
  /\ initPending.cutout > 0
  /\ initPending' = [initPending EXCEPT !.cutout = @ - 1]
  /\ IF payload.cutout \in Decodable
     THEN LET img == Img(payload.cutout)
              r == resizeCanvases(img.w, img.h)
          IN /\ cutoutImg' = payload.cutout
             /\ offCanvas' = r.offCanvas
             /\ strokeCanvas' = r.strokeCanvas
             /\ maskCanvas' = initMaskFromCutout(r.maskCanvas, payload.cutout)
             /\ mode' = "erase"
             /\ brushSize' = setBrush(parseInt(brushSlider))
             /\ canvas' = composeAndRender(
                    [EditorState EXCEPT !.canvas = r.canvas,
                                        !.maskCanvas = maskCanvas',
                                        !.strokeCanvas = strokeCanvas',
                                        !.mode = mode',
                                        !.brushSize = brushSize'])
             /\ UNCHANGED errorLogged
     ELSE /\ errorLogged' = TRUE
          /\ UNCHANGED <<cutoutImg, canvas, offCanvas, strokeCanvas,
                         maskCanvas, mode, brushSize>>
  /\ UNCHANGED <<originalImg, bgImg, brushSlider, drawing, lastX, hoverX,
                 bgPending, gestures, maskAtBegin, modeAtBegin, webview, toWebview, toHost,
                 payload, cmd, hostVars, cancelIssued, lastBgRequest, bgFailed>>

\* editor.js:177-178 the mode buttons
SetMode(newMode) ==
  /\ webview = "live"
  /\ mode' = newMode
  /\ UNCHANGED <<originalImg, cutoutImg, bgImg, canvas, offCanvas, maskCanvas,
                 strokeCanvas, brushSize, brushSlider, drawing, lastX, hoverX,
                 initPending, bgPending, gestures, maskAtBegin, modeAtBegin, webview,
                 toWebview, toHost, payload, cmd, hostVars, cancelIssued, lastBgRequest,
                 errorLogged, bgFailed>>

\* editor.js:179 the brush slider's 'input'
BrushInput(v) ==
  /\ webview = "live"
  /\ brushSlider' = v
  /\ brushSize' = setBrush(parseInt(v))
  /\ UNCHANGED <<originalImg, cutoutImg, bgImg, canvas, offCanvas, maskCanvas,
                 strokeCanvas, mode, drawing, lastX, hoverX, initPending,
                 bgPending, gestures, maskAtBegin, modeAtBegin, webview, toWebview, toHost,
                 payload, cmd, hostVars, cancelIssued, lastBgRequest,
                 errorLogged, bgFailed>>

\* editor.js:181-189 pointerdown
PointerDown(x) ==
  /\ webview = "live"
  /\ gestures < MaxGestures
  /\ IF originalImg = "null"
     THEN UNCHANGED <<drawing, lastX, strokeCanvas, gestures, maskAtBegin, modeAtBegin,
                      canvas>>
     ELSE /\ drawing' = TRUE
          /\ lastX' = x
          /\ strokeCanvas' = drawStroke(clearStroke(strokeCanvas), x, x, brushSize)
          /\ gestures' = gestures + 1
          /\ maskAtBegin' = maskCanvas.px
          /\ modeAtBegin' = mode
          /\ canvas' = composeAndRender(
                 [EditorState EXCEPT !.drawing = TRUE,
                                     !.strokeCanvas = strokeCanvas'])
  /\ UNCHANGED <<originalImg, cutoutImg, bgImg, offCanvas, maskCanvas,
                 brushSize, brushSlider, mode, hoverX, initPending, bgPending,
                 webview, toWebview, toHost, payload, cmd, hostVars, cancelIssued, lastBgRequest,
                 errorLogged, bgFailed>>

\* editor.js:190-197 and 291-298 pointermove (both listeners)
PointerMove(x) ==
  /\ webview = "live"
  /\ hoverX' = <<x>>
  /\ IF drawing
     THEN /\ strokeCanvas' = drawStroke(strokeCanvas, lastX, x, brushSize)
          /\ lastX' = x
     ELSE UNCHANGED <<strokeCanvas, lastX>>
  /\ canvas' = composeAndRender(
         [EditorState EXCEPT !.hoverX = hoverX',
                             !.strokeCanvas = strokeCanvas'])
  /\ UNCHANGED <<originalImg, cutoutImg, bgImg, offCanvas, maskCanvas,
                 brushSize, brushSlider, mode, drawing, initPending, bgPending,
                 gestures, maskAtBegin, modeAtBegin, webview, toWebview, toHost, payload,
                 cmd, hostVars, cancelIssued, lastBgRequest,
                 errorLogged, bgFailed>>

\* variant of PointerUp that commits in the mode the gesture began in
PointerUpModeAtBegin ==
  /\ webview = "live"
  /\ IF drawing
     THEN /\ maskCanvas' = commitStroke(maskCanvas, strokeCanvas, modeAtBegin)
          /\ strokeCanvas' = clearStroke(strokeCanvas)
          /\ canvas' = composeAndRender(
                 [EditorState EXCEPT !.maskCanvas = maskCanvas',
                                     !.strokeCanvas = strokeCanvas'])
     ELSE UNCHANGED <<maskCanvas, strokeCanvas, canvas>>
  /\ drawing' = FALSE
  /\ maskAtBegin' = <<>>
  /\ UNCHANGED modeAtBegin
  /\ UNCHANGED <<originalImg, cutoutImg, bgImg, offCanvas, brushSize,
                 brushSlider, mode, lastX, hoverX, initPending, bgPending,
                 gestures, webview, toWebview, toHost, payload,
                 cmd, hostVars, cancelIssued, lastBgRequest,
                 errorLogged, bgFailed>>

\* editor.js:198-216 pointerup: the commit
PointerUp ==
  /\ webview = "live"
  /\ IF drawing
     THEN /\ maskCanvas' = commitStroke(maskCanvas, strokeCanvas, mode)
          /\ strokeCanvas' = clearStroke(strokeCanvas)
          \* 213: rendered before drawing is reset at 215
          /\ canvas' = composeAndRender(
                 [EditorState EXCEPT !.maskCanvas = maskCanvas',
                                     !.strokeCanvas = strokeCanvas'])
     ELSE UNCHANGED <<maskCanvas, strokeCanvas, canvas>>
  /\ drawing' = FALSE
  /\ maskAtBegin' = <<>>
  /\ UNCHANGED modeAtBegin
  /\ UNCHANGED <<originalImg, cutoutImg, bgImg, offCanvas, brushSize,
                 brushSlider, mode, lastX, hoverX, initPending, bgPending,
                 gestures, webview, toWebview, toHost, payload,
                 cmd, hostVars, cancelIssued, lastBgRequest,
                 errorLogged, bgFailed>>

\* editor.js:217 pointercancel
PointerCancel ==
  /\ webview = "live"
  /\ drawing' = FALSE
  /\ maskAtBegin' = <<>>
  /\ UNCHANGED modeAtBegin
  /\ UNCHANGED <<originalImg, cutoutImg, bgImg, canvas, offCanvas, maskCanvas,
                 strokeCanvas, brushSize, brushSlider, mode, lastX, hoverX,
                 initPending, bgPending, gestures, webview, toWebview, toHost,
                 payload, cmd, hostVars, cancelIssued, lastBgRequest,
                 errorLogged, bgFailed>>


\* editor.js:219-227 a background file is chosen: its load starts.  (The model
\* has at most one load of a file pending at a time.)
BgFileChange(f) ==
  /\ webview = "live"
  /\ f \notin bgPending
  /\ bgPending' = bgPending \cup {f}
  /\ lastBgRequest' = f
  /\ UNCHANGED <<originalImg, cutoutImg, bgImg, canvas, offCanvas, maskCanvas,
                 strokeCanvas, brushSize, brushSlider, mode, drawing, lastX,
                 hoverX, initPending, gestures, maskAtBegin, modeAtBegin, webview,
                 toWebview, toHost, payload, cmd, hostVars, cancelIssued,
                 errorLogged, bgFailed>>

\* variant of BgLoaded that renders after a failed decode as well
BgLoadedRendersAlways(f) ==
  /\ webview = "live"
  /\ f \in bgPending
  /\ bgPending' = bgPending \ {f}
  /\ IF f \in Decodable
     THEN /\ bgImg' = f
          /\ canvas' = composeAndRender([EditorState EXCEPT !.bgImg = f])
          /\ UNCHANGED bgFailed
     ELSE /\ bgFailed' = TRUE
          /\ canvas' = composeAndRender(EditorState)
          /\ UNCHANGED bgImg
  /\ UNCHANGED <<originalImg, cutoutImg, offCanvas, maskCanvas,
                 strokeCanvas, brushSize, brushSlider, mode, drawing, lastX,
                 hoverX, initPending, gestures, maskAtBegin, modeAtBegin, webview,
                 toWebview, toHost, payload, cmd, hostVars, cancelIssued, lastBgRequest,
                 errorLogged>>

\* editor.js:223-225 the load of a pending background file settles, in any
\* order: bgImg is replaced, or the decode fails and the empty catch absorbs it
BgLoaded(f) ==
  /\ webview = "live"
  /\ f \in bgPending
  /\ bgPending' = bgPending \ {f}
  /\ IF f \in Decodable
     THEN /\ bgImg' = f
          /\ canvas' = composeAndRender([EditorState EXCEPT !.bgImg = f])
          /\ UNCHANGED bgFailed
     ELSE /\ bgFailed' = TRUE
          /\ UNCHANGED <<bgImg, canvas>>
  /\ UNCHANGED <<originalImg, cutoutImg, offCanvas, maskCanvas,
                 strokeCanvas, brushSize, brushSlider, mode, drawing, lastX,
                 hoverX, initPending, gestures, maskAtBegin, modeAtBegin, webview,
                 toWebview, toHost, payload, cmd, hostVars, cancelIssued, lastBgRequest,
                 errorLogged>>

\* editor.js:230-232 the remove-background button
RemoveBg ==
  /\ webview = "live"
  /\ bgImg' = "null"
  /\ lastBgRequest' = "null"
  /\ canvas' = composeAndRender([EditorState EXCEPT !.bgImg = "null"])
  /\ UNCHANGED <<originalImg, cutoutImg, offCanvas, maskCanvas,
                 strokeCanvas, brushSize, brushSlider, mode, drawing, lastX,
                 hoverX, initPending, bgPending, gestures, maskAtBegin, modeAtBegin,
                 webview, toWebview, toHost, payload, cmd, hostVars, cancelIssued,
                 errorLogged, bgFailed>>

\* a message of this type is on its way to the host.  (The model has at most
\* one message of a type in flight at a time.)
InFlight(type) == \E i \in 1 .. Len(toHost) : toHost[i].type = type

\* results the host has not finished with: posted, or being saved
ResultsInFlight ==
  Len(saveTasks) + (IF InFlight("acceptPngDataUrl") THEN 1 ELSE 0)

\* editor.js:234-261 the accept button: flatten and post the PNG
Accept ==
  /\ webview = "live"
  /\ ~InFlight("acceptPngDataUrl")
  /\ ResultsInFlight < MaxAccepts
  /\ IF originalImg = "null"
     THEN UNCHANGED toHost
     ELSE Post([type |-> "acceptPngDataUrl", dataUrl |-> Flatten(EditorState)])
  /\ UNCHANGED <<webviewVars, webview, toWebview, payload, cmd, hostVars,
                 cancelIssued>>

\* editor.js:263-265 the cancel button
Cancel ==
  /\ webview = "live"
  /\ ~InFlight("cancelEdit")
  /\ Post([type |-> "cancelEdit"])
  /\ cancelIssued' = TRUE
  /\ UNCHANGED <<webviewVars, webview, toWebview, payload, cmd, hostVars>>

----------------------------------------------------------------------------
(* The host: extension.js, the two commands that open the editor panel *)

\* extension.js:305-321 getOutputPathPng with overwrite = false.  File names:
\* 0 is <base>.png, 1 is <base><suffix>.png, i > 1 is <base><suffix>(i).png
getOutputPathPng(existing) ==
  IF 0 \notin existing
  THEN 0
  ELSE CHOOSE i \in 1 .. (Cardinality(existing) + 1) :
         /\ i \notin existing
         /\ \A j \in 1 .. (i - 1) : j \in existing

\* extension.js:148-150 (removeBg), 254-256 (edit): the cutout is ready; 'init'
\* is posted and the message listener registered
HostPostInit ==
  /\ hostPc = "starting"
  /\ hostPc' = "listening"
  /\ toWebview' = toWebview + 1
  /\ UNCHANGED <<webviewVars, webview, toHost, payload, cmd, saveTasks, files,
                 saved, cancelIssued>>

\* extension.js:147-148 "try immediate post, and also handle 'ready' to
\* resend": an 'init' posted before the webview's script has added its message
\* listener (editor.js:272) may find no receiver; whether the platform keeps it
\* until the page has loaded is outside the code, so both outcomes exist: the
\* message stays queued (InitMessage takes it after the load) or is dropped
InitUndelivered ==
  /\ webview = "loading"
  /\ toWebview > 0
  /\ toWebview' = toWebview - 1
  /\ UNCHANGED <<webviewVars, webview, toHost, payload, cmd, hostVars,
                 cancelIssued>>

\* extension.js:150-170 (removeBg), 256-268 (edit): a message of the webview
\* arrives at the host.  Without a registered listener it is lost.
HostReceive ==
  /\ toHost # <<>>
  /\ toHost' = Tail(toHost)
  /\ LET msg == Head(toHost)
     IN IF hostPc = "listening" /\ cmd = "removeBg"
        THEN CASE msg.type = "acceptPngDataUrl" ->
                    /\ saveTasks' = Append(saveTasks,
                          [pc |-> "mkdir", outPath |-> getOutputPathPng(files),
                           dataUrl |-> msg.dataUrl])
                    /\ UNCHANGED <<hostPc, webview, toWebview>>
               [] msg.type = "cancelEdit" ->
                    /\ hostPc' = "disposed"
                    /\ webview' = "gone"
                    /\ UNCHANGED <<saveTasks, toWebview>>
               [] msg.type = "ready" ->
                    /\ toWebview' = toWebview + 1
                    /\ UNCHANGED <<hostPc, webview, saveTasks>>
        ELSE UNCHANGED <<hostPc, webview, saveTasks, toWebview>>
  /\ UNCHANGED <<webviewVars, payload, cmd, files, saved, cancelIssued>>

\* extension.js:153-155 the save resumes after getOutputPathPng's mkdir and
\* writes the file
SaveWrite(i) ==
  /\ i \in 1 .. Len(saveTasks)
  /\ saveTasks[i].pc = "mkdir"
  /\ files' = files \cup {saveTasks[i].outPath}
  /\ saved' = Append(saved, [outPath |-> saveTasks[i].outPath,
                             dataUrl |-> saveTasks[i].dataUrl])
  /\ saveTasks' = [saveTasks EXCEPT ![i].pc = "written"]
  /\ UNCHANGED <<webviewVars, webview, toWebview, toHost, payload, cmd,
                 hostPc, cancelIssued>>

\* extension.js:156-159 the save resumes after writeFile: the panel is disposed
SaveDone(i) ==
  /\ i \in 1 .. Len(saveTasks)
  /\ saveTasks[i].pc = "written"
  /\ saveTasks' = SubSeq(saveTasks, 1, i - 1) \o SubSeq(saveTasks, i + 1, Len(saveTasks))
  /\ hostPc' = "disposed"
  /\ webview' = "gone"
  /\ UNCHANGED <<webviewVars, toWebview, toHost, payload, cmd, files, saved, cancelIssued>>

----------------------------------------------------------------------------

Next ==
  \/ WebviewLoad
  \/ InitMessage
  \/ OriginalDecoded
  \/ CutoutDecoded
  \/ \E m \in {"erase", "restore"} : SetMode(m)
  \/ \E v \in SliderValues : BrushInput(v)
  \/ \E x \in PointerXs(canvas.w) : PointerDown(x)
  \/ \E x \in PointerXs(canvas.w) : PointerMove(x)
  \/ PointerUp
  \/ PointerCancel
  \/ \E f \in BgFiles : BgFileChange(f)
  \/ \E f \in BgFiles : BgLoaded(f)
  \/ RemoveBg
  \/ Accept
  \/ Cancel
  \/ HostPostInit
  \/ InitUndelivered
  \/ HostReceive
  \/ \E i \in 1 .. MaxAccepts : SaveWrite(i)
  \/ \E i \in 1 .. MaxAccepts : SaveDone(i)

Spec == Init /\ [][Next]_vars


----------------------------------------------------------------------------
(* Specifications of parts of the system, each with the handlers it needs.  *)

\* The editor: the session's start, the gestures, mode and brush.
NextEditor ==
  \/ HostPostInit
  \/ HostReceive
  \/ WebviewLoad
  \/ InitMessage
  \/ OriginalDecoded
  \/ CutoutDecoded
  \/ \E m \in {"erase", "restore"} : SetMode(m)
  \/ \E v \in SliderValues : BrushInput(v)
  \/ \E x \in PointerXs(canvas.w) : PointerDown(x)
  \/ \E x \in PointerXs(canvas.w) : PointerMove(x)
  \/ PointerUp
  \/ PointerCancel

SpecEditor == Init /\ [][NextEditor]_vars

\* The editor with a background and the accept button, in a session of the
\* edit command whose images decode.
InitFlatten ==
  /\ Init
  /\ payload = [original |-> "photo", cutout |-> "cutout"]
  /\ cmd = "edit"

NextFlatten ==
  \/ HostPostInit
  \/ HostReceive
  \/ WebviewLoad
  \/ InitMessage
  \/ OriginalDecoded
  \/ CutoutDecoded
  \/ \E m \in {"erase", "restore"} : SetMode(m)
  \/ \E x \in PointerXs(canvas.w) : PointerDown(x)
  \/ \E x \in PointerXs(canvas.w) : PointerMove(x)
  \/ PointerUp
  \/ PointerCancel
  \/ BgFileChange("sky")
  \/ BgLoaded("sky")
  \/ Accept

SpecFlatten == InitFlatten /\ [][NextFlatten]_vars

\* The preview: gestures with mode changes, with a background set and removed
\* meanwhile, in a session of the edit command whose images decode.
NextPreview ==
  \/ HostPostInit
  \/ HostReceive
  \/ WebviewLoad
  \/ InitMessage
  \/ OriginalDecoded
  \/ CutoutDecoded
  \/ \E m \in {"erase", "restore"} : SetMode(m)
  \/ \E x \in PointerXs(canvas.w) : PointerDown(x)
  \/ \E x \in PointerXs(canvas.w) : PointerMove(x)
  \/ PointerUp
  \/ BgFileChange("sky")
  \/ BgLoaded("sky")
  \/ RemoveBg

SpecPreview == InitFlatten /\ [][NextPreview]_vars

\* The session: its start, gestures at the default brush, accept and cancel,
\* and the host's save.
NextSession ==
  \/ HostPostInit
  \/ HostReceive
  \/ WebviewLoad
  \/ InitMessage
  \/ OriginalDecoded
  \/ CutoutDecoded
  \/ \E x \in PointerXs(canvas.w) : PointerDown(x)
  \/ PointerUp
  \/ Accept
  \/ Cancel
  \/ \E i \in 1 .. MaxAccepts : SaveWrite(i)
  \/ \E i \in 1 .. MaxAccepts : SaveDone(i)

SpecSession == Init /\ [][NextSession]_vars

\* The brush: setBrush applied to the arguments of BrushTexts, in a session
\* that initializes.
NextBrush ==
  \/ HostPostInit
  \/ HostReceive
  \/ WebviewLoad
  \/ InitMessage
  \/ OriginalDecoded
  \/ CutoutDecoded
  \/ \E m \in {"erase", "restore"} : SetMode(m)
  \/ \E t \in BrushTexts : BrushInput(t)

SpecBrush == Init /\ [][NextBrush]_vars

\* The handshake: both commands, images that decode, the first post before or
\* after the webview's load, kept or dropped; the user moves the pointer and
\* switches the mode meanwhile.  Every task of the two event loops (the host's
\* continuation and listener, the webview's load, message handler and decodes)
\* is run eventually; the pointer, the mode and the loss of a message are not
\* obliged to happen.
InitHandshake ==
  /\ Init
  /\ payload.original \in Decodable
  /\ payload.cutout \in Decodable

NextHandshake ==
  \/ HostPostInit
  \/ InitUndelivered
  \/ HostReceive
  \/ WebviewLoad
  \/ InitMessage
  \/ OriginalDecoded
  \/ CutoutDecoded
  \/ \E m \in {"erase", "restore"} : SetMode(m)
  \/ \E x \in PointerXs(canvas.w) : PointerMove(x)

SpecHandshake ==
  /\ InitHandshake
  /\ [][NextHandshake]_vars
  /\ WF_vars(HostPostInit)
  /\ WF_vars(HostReceive)
  /\ WF_vars(WebviewLoad)
  /\ WF_vars(InitMessage)
  /\ WF_vars(OriginalDecoded)
  /\ WF_vars(CutoutDecoded)

\* The stroke: gestures with the brush changed between two widths that leave
\* different edges, in a session of the edit command.
NextStroke ==
  \/ HostPostInit
  \/ HostReceive
  \/ WebviewLoad
  \/ InitMessage
  \/ OriginalDecoded
  \/ CutoutDecoded
  \/ \E t \in {<<"3">>, <<"4">>} : BrushInput(t)
  \/ \E x \in PointerXs(canvas.w) : PointerDown(x)
  \/ \E x \in PointerXs(canvas.w) : PointerMove(x)
  \/ PointerUp

SpecStroke == InitFlatten /\ [][NextStroke]_vars

\* The background: files that decode and files that do not are chosen while
\* the session initializes, gestures run and the mode changes.
NextBackground ==
  \/ HostPostInit
  \/ HostReceive
  \/ WebviewLoad
  \/ InitMessage
  \/ OriginalDecoded
  \/ CutoutDecoded
  \/ \E m \in {"erase", "restore"} : SetMode(m)
  \/ \E x \in PointerXs(canvas.w) : PointerDown(x)
  \/ PointerUp
  \/ PointerCancel
  \/ \E f \in BgFiles : BgFileChange(f)
  \/ \E f \in BgFiles : BgLoaded(f)
  \/ RemoveBg

SpecBackground == InitFlatten /\ [][NextBackground]_vars


----------------------------------------------------------------------------
(* Properties *)

\* the first 'init' has been processed: images loaded, canvases sized, mask seeded
Ready == cutoutImg # "null"

\* the step is the commit of a gesture: pointerup while drawing
CommitStep == PointerUp /\ drawing

HasContent(cv) == \E x \in DOMAIN cv.px : cv.px[x] > 0

\* C1: once the session is initialized, the mask changes only in the commit
\* step at gesture release; every other event, a repeated 'init' included,
\* leaves it unchanged.
C1_MaskChangesOnlyAtCommit ==
  [][(Ready /\ maskCanvas' # maskCanvas) => CommitStep]_vars

\* C3: a commit in erase mode covers no pixel of the mask that was not covered
\* before the gesture; a commit in restore mode uncovers no pixel that was
\* covered before the gesture.
C3_CommitMonotoneSinceGestureBegan ==
  [][CommitStep =>
       /\ mode = "erase" =>
            \A x \in DOMAIN maskCanvas'.px :
              maskCanvas'.px[x] > 0 =>
                (x \in DOMAIN maskAtBegin /\ maskAtBegin[x] > 0)
       /\ mode = "restore" =>
            \A x \in DOMAIN maskAtBegin :
              maskAtBegin[x] > 0 => AlphaAt(maskCanvas', x) > 0]_vars

\* C4: the commit computes, for every pixel, mask minus stroke in erase mode
\* and mask union stroke in restore mode: a pixel the stroke covers fully
\* becomes transparent (erase) or opaque (restore, also when it was fully
\* erased before), a pixel the stroke does not touch keeps its alpha, a pixel
\* the stroke covers partly loses (erase) or gains (restore) that share; and the
\* stroke buffer is fully transparent after the commit.
C4_CommitComputesMinusAndUnion ==
  [][CommitStep =>
       /\ DOMAIN maskCanvas'.px = DOMAIN maskCanvas.px
       /\ \A x \in DOMAIN maskCanvas.px :
            LET s == AlphaAt(strokeCanvas, x)
                m == maskCanvas.px[x]
                n == maskCanvas'.px[x]
                err == IF mode = "erase"
                       THEN 255 * n - m * (255 - s)
                       ELSE 255 * (n - s) - m * (255 - s)
            IN /\ s = 0 => n = m
               /\ s = 255 => n = (IF mode = "erase" THEN 0 ELSE 255)
               /\ 2 * err <= 255 /\ 2 * err >= -255
       /\ \A x \in DOMAIN strokeCanvas'.px : strokeCanvas'.px[x] = 0]_vars

\* C4 witness: a restore commit has made opaque a pixel that the cutout left
\* fully transparent, and the stroke buffer is clear again
C4_Witness ==
  /\ Ready
  /\ gestures > 0
  /\ ~drawing
  /\ ~HasContent(strokeCanvas)
  /\ \E x \in DOMAIN maskCanvas.px :
       /\ maskCanvas.px[x] = 255
       /\ Img(cutoutImg).a[ScaledIndex(Img(cutoutImg), x, maskCanvas.w)] = 0

\* C5: the stroke buffer has content only while a gesture is in progress
\* (stated for the initialized session: what happens before is C9's matter).
C5_StrokeEmptyUnlessGesture == (Ready /\ HasContent(strokeCanvas)) => drawing

\* C6: every gesture ends through a commit: in the step that ends it the
\* stroke buffer is merged into the mask and cleared (stated for the
\* initialized session).
C6_GestureEndsByCommit ==
  [][(Ready /\ drawing /\ ~drawing') =>
       /\ maskCanvas' = commitStroke(maskCanvas, strokeCanvas, mode)
       /\ strokeCanvas' = clearStroke(strokeCanvas)]_vars

\* C9: no gesture starts and nothing is painted into the stroke buffer before
\* the initialization has completed.
C9_NoGestureBeforeReady == (drawing \/ HasContent(strokeCanvas)) => Ready

\* C10: after a failed decode of the original or of the cutout the session
\* stays uninitialized: no gesture is in progress and no result is posted.
C10_FailedInitStaysUninitialized ==
  errorLogged =>
    /\ ~Ready
    /\ ~drawing
    /\ ~InFlight("acceptPngDataUrl")

\* a result is posted in this step
ResultPosted ==
  /\ Len(toHost') = Len(toHost) + 1
  /\ toHost'[Len(toHost')].type = "acceptPngDataUrl"

\* states that agree with the current one on mask, original and background
\* and differ in stroke buffer, gesture flag, mode, brush and hover position
C2_Variants ==
  { [EditorState EXCEPT !.strokeCanvas.px = sp, !.drawing = d, !.mode = m,
                        !.brushSize = b, !.hoverX = h] :
      sp \in { Transparent(strokeCanvas.w),
               [x \in Pixels(strokeCanvas.w) |-> 255],
               [x \in Pixels(strokeCanvas.w) |-> IF x = 0 THEN 128 ELSE 0] },
      d \in BOOLEAN, m \in {"erase", "restore"}, b \in {3, 40},
      h \in {<<>>, <<1>>} }

\* C2: the image an accept posts is the one flatten gives in every state that
\* agrees on mask, original and background, whatever the stroke buffer, the
\* gesture flag, the mode, the brush and the hover position are.
C2_FlattenReadsCommittedOnly ==
  [][(ResultPosted /\ Accept) =>
       \A v \in C2_Variants :
         toHost'[Len(toHost')].dataUrl = Flatten(v)]_vars

\* C2 witness: the result on its way to the host is the flatten of the current
\* state, taken during a gesture whose stroke lies over a kept pixel, with a
\* background set
C2_Witness ==
  /\ drawing
  /\ bgImg # "null"
  /\ \E x \in DOMAIN maskCanvas.px :
       maskCanvas.px[x] > 0 /\ AlphaAt(strokeCanvas, x) > 0
  /\ \E i \in 1 .. Len(toHost) :
       /\ toHost[i].type = "acceptPngDataUrl"
       /\ toHost[i].dataUrl = Flatten(EditorState)
       /\ \E x \in DOMAIN toHost[i].dataUrl : toHost[i].dataUrl[x].fg.a > 0

\* C7: once cancel has been issued, no result is delivered: no
\* 'acceptPngDataUrl' is posted and the host writes no file.
C7_NoResultAfterCancel ==
  [][(Ready /\ cancelIssued) => (~ResultPosted /\ saved' = saved)]_vars

\* C8: before the initialization has completed no cancellation message and no
\* result message is sent, and the session reaches no terminal outcome (panel
\* disposed, result saved).
C8_TerminalOnlyAfterReady ==
  \/ Ready
  \/ /\ ~cancelIssued
     /\ ~InFlight("cancelEdit")
     /\ ~InFlight("acceptPngDataUrl")
     /\ hostPc # "disposed"
     /\ saved = <<>>

----------------------------------------------------------------------------
(* The host's save sink, the brush and the edit state *)

\* the host takes a result of an initialized session from its message queue
ResultReceived ==
  /\ Ready
  /\ hostPc = "listening"
  /\ toHost # <<>>
  /\ Head(toHost).type = "acceptPngDataUrl"
  /\ toHost' = Tail(toHost)

\* C11: every result an initialized session posts is delivered to the host's
\* save sink: when the listening host takes it from its queue a save of that
\* image begins, under either command that opens the editor.
C11_AcceptReachesSaveSink ==
  [][ResultReceived =>
       /\ Len(saveTasks') = Len(saveTasks) + 1
       /\ saveTasks'[Len(saveTasks')].dataUrl = Head(toHost).dataUrl]_vars

\* C12: the stored brush diameter is an integer in [1, 400] whatever integer
\* or non-numeric text setBrush is given, and the argument 500 stores 400.
C12_BrushDiameterClamped ==
  /\ brushSize \in 1 .. 400
  /\ brushSlider = <<"5", "0", "0">> => brushSize = 400

\* C12 witness: 500 was given and 400 is stored
C12_Witness == brushSlider = <<"5", "0", "0">> /\ brushSize = 400

\* the step in which an 'init' completes: the cutout has decoded
InitCompletes == CutoutDecoded /\ payload.cutout \in Decodable

\* C13: whenever a session initializes the edit state is reset: the mode is
\* erase and the brush diameter is the default 40 afterwards.
C13_InitResetsEditState ==
  [][InitCompletes => (mode' = "erase" /\ brushSize' = 40)]_vars

\* C14: every pixel of the mask is fully opaque or fully transparent.
C14_MaskAlphaBinary ==
  \A x \in DOMAIN maskCanvas.px : maskCanvas.px[x] \in {0, Opaque}

\* width and height of a surface
SizeOf(cv) == [w |-> cv.w, h |-> cv.h]

\* the four surfaces have one size, and each raster has a pixel per column
SameDimensions ==
  /\ SizeOf(maskCanvas) = SizeOf(canvas)
  /\ SizeOf(strokeCanvas) = SizeOf(canvas)
  /\ SizeOf(offCanvas) = SizeOf(canvas)
  /\ DOMAIN maskCanvas.px = Pixels(canvas.w)
  /\ DOMAIN strokeCanvas.px = Pixels(canvas.w)

\* C15: mask, stroke buffer, scratch surface and display surface have the
\* same dimensions in every state; after the initialization they are the
\* cutout's dimensions and no step changes them; a flattened result has the
\* dimensions of the surfaces.
C15_DimensionsSharedAndFixed ==
  /\ [](SameDimensions /\ (Ready => SizeOf(canvas) = SizeOf(Img(cutoutImg))))
  /\ [][/\ Ready => SizeOf(canvas') = SizeOf(canvas)
        /\ ResultPosted =>
             DOMAIN toHost'[Len(toHost')].dataUrl = Pixels(maskCanvas.w)]_vars

\* C15 witness: an initialized session whose cutout and original differ in
\* size, with no 'init' outstanding and a gesture committed, and a result of
\* the cutout's width on its way to the host
C15_Witness ==
  /\ Ready
  /\ SizeOf(Img(cutoutImg)) # SizeOf(Img(originalImg))
  /\ SizeOf(maskCanvas) = SizeOf(Img(cutoutImg))
  /\ gestures > 0 /\ ~drawing
  /\ initPending.cutout = 0 /\ toWebview = 0 /\ cmd = "removeBg"
  /\ \E i \in 1 .. Len(toHost) :
       /\ toHost[i].type = "acceptPngDataUrl"
       /\ DOMAIN toHost[i].dataUrl = Pixels(Img(cutoutImg).w)

\* the session is initialized and no gesture has begun in it
Unedited == Ready /\ gestures = 0

\* alpha of the cutout at column x of the surfaces
CutoutAlphaAt(x) == Img(cutoutImg).a[x + 1]

\* C16: in an initialized session without edits the mask covers exactly the
\* cutout's non-transparent pixels, and a result flattened then has, per
\* pixel, the cutout's alpha (the original being opaque there) with the
\* original's colour, over the background's pixel, or over nothing when no
\* background is set.
C16_InitThenFlattenGivesCutout ==
  /\ [](Unedited =>
          \A x \in Pixels(canvas.w) :
            maskCanvas.px[x] > 0 <=> CutoutAlphaAt(x) > 0)
  /\ [][(Unedited /\ ResultPosted) =>
          LET out == toHost'[Len(toHost')].dataUrl
              img == Img(originalImg)
          IN /\ DOMAIN out = Pixels(Img(cutoutImg).w)
             /\ \A x \in DOMAIN out :
                  LET i == ScaledIndex(img, x, canvas.w)
                  IN /\ img.a[i] = Opaque => out[x].fg.a = CutoutAlphaAt(x)
                     /\ out[x].fg.a > 0 => out[x].fg.c = img.c[i]
                     /\ out[x].bg = IF bgImg = "null" THEN 0
                                    ELSE Img(bgImg).c[CoverIndex(Img(bgImg), x,
                                                       canvas.w, canvas.h)]]_vars

\* C16 witness: the result of an unedited session with a background is on its
\* way to the host; it has a transparent, a partial and an opaque pixel
C16_Witness ==
  /\ Unedited
  /\ bgImg # "null"
  /\ \E i \in 1 .. Len(toHost) :
       /\ toHost[i].type = "acceptPngDataUrl"
       /\ toHost[i].dataUrl = Flatten(EditorState)
       /\ \E x, y, z \in DOMAIN toHost[i].dataUrl :
            /\ toHost[i].dataUrl[x].fg.a = 0 /\ toHost[i].dataUrl[x].bg # 0
            /\ toHost[i].dataUrl[y].fg.a = Opaque
            /\ toHost[i].dataUrl[z].fg.a \in 1 .. (Opaque - 1)

\* C17: committing the stroke of the gesture in progress a second time, in
\* the same mode, leaves the mask as the first commit made it, for every mask
\* of fully opaque and fully transparent pixels and in either mode.
C17_CommitIdempotent ==
  (Ready /\ drawing) =>
    \A px \in [Pixels(maskCanvas.w) -> {0, Opaque}], m \in {"erase", "restore"} :
      LET once == commitStroke([maskCanvas EXCEPT !.px = px], strokeCanvas, m)
      IN commitStroke(once, strokeCanvas, m) = once

\* the edit state and the rasters a background load must leave alone
EditStateAndRasters ==
  <<maskCanvas, strokeCanvas, mode, brushSize, brushSlider, drawing, lastX,
    hoverX, originalImg, cutoutImg>>

\* C18: the background image changes only when a load succeeds or the
\* background is removed, so a pending load leaves the prior one in effect;
\* a load that fails leaves background, mask, stroke buffer and edit state
\* as they are and paints nothing; no load changes mask, stroke buffer or
\* edit state.
C18_BackgroundLoadLeavesStateAlone ==
  [][/\ bgImg' # bgImg =>
          \/ RemoveBg
          \/ \E f \in bgPending \cap Decodable : BgLoaded(f) /\ bgImg' = f
     /\ \A f \in bgPending :
          BgLoaded(f) =>
            /\ EditStateAndRasters' = EditStateAndRasters
            /\ f \notin Decodable => (bgImg' = bgImg /\ canvas' = canvas)
     /\ \A f \in BgFiles :
          BgFileChange(f) =>
            /\ EditStateAndRasters' = EditStateAndRasters
            /\ bgImg' = bgImg /\ canvas' = canvas]_vars

\* C18 witness: a background is in effect, a decode has failed, and the
\* display is out of date: a render would have changed it
C18_Witness ==
  /\ bgFailed
  /\ bgImg = "sky"
  /\ Ready
  /\ canvas # composeAndRender(EditorState)

\* a file name of getOutputPathPng that carries the suffix: every name but
\* <base>.png
Suffixed(name) == name # 0

\* C19: with overwrite false, every file the host writes has a suffixed name.
C19_OutputNameSuffixed ==
  \A i \in 1 .. Len(saved) : Suffixed(saved[i].outPath)

\* C20: while a gesture is in progress no step removes coverage from the
\* stroke buffer (stated for the initialized session).
C20_StrokeGrowsWithinGesture ==
  [][(Ready /\ drawing /\ drawing') =>
       \A x \in DOMAIN strokeCanvas.px :
         AlphaAt(strokeCanvas', x) >= strokeCanvas.px[x]]_vars

----------------------------------------------------------------------------
(* Brush width, handshake, preview, mode at release, background requests,   *)
(* output path                                                              *)

\* C21: a brush change during a gesture leaves the stroke buffer as it is,
\* and a segment drawn in a gesture has the brush diameter of that moment:
\* pixels wholly within half the diameter of the segment become opaque,
\* pixels wholly outside keep their alpha, the others gain coverage.
C21_SegmentUsesCurrentBrush ==
  [][/\ (drawing /\ \E t \in BrushTexts : BrushInput(t)) =>
          strokeCanvas' = strokeCanvas
     /\ (drawing /\ \E p \in PointerXs(canvas.w) : PointerMove(p)) =>
          LET lo == Min(lastX, lastX') - brushSize
              hi == Max(lastX, lastX') + brushSize
          IN \A x \in Pixels(strokeCanvas.w) :
               IF lo <= 2 * x /\ 2 * x + 2 <= hi
               THEN strokeCanvas'.px[x] = Opaque
               ELSE IF 2 * x + 2 <= lo \/ hi <= 2 * x
               THEN strokeCanvas'.px[x] = strokeCanvas.px[x]
               ELSE /\ strokeCanvas'.px[x] >= strokeCanvas.px[x]
                    /\ strokeCanvas'.px[x] > 0]_vars

\* C21 witness: in a gesture the brush is 3 and the display, painted after
\* the change, shows the cursor of that brush, while the stroke buffer still
\* has the edge pixel the brush 4 left
C21_Witness ==
  /\ Ready /\ drawing
  /\ brushSize = 3
  /\ lastX = 1 /\ hoverX = <<1>>
  /\ strokeCanvas.px[2] \in 1 .. (Opaque - 1)
  /\ canvas = composeAndRender(EditorState)
  /\ canvas.px[2].cursor = "none"

\* C22: the host posts 'init' again whenever a 'ready' of the webview
\* reaches its listener, and in a session of either command whose images
\* decode the webview eventually completes an 'init' and is Ready.
C22_HandshakeReachesReady ==
  /\ [][(/\ hostPc = "listening"
         /\ toHost # <<>>
         /\ Head(toHost).type = "ready"
         /\ HostReceive) => toWebview' = toWebview + 1]_vars
  /\ <>Ready

\* the same for the sessions of the Remove Background command alone
C22_RemoveBgReachesReady ==
  /\ [][(/\ cmd = "removeBg"
         /\ hostPc = "listening"
         /\ toHost # <<>>
         /\ Head(toHost).type = "ready"
         /\ HostReceive) => toWebview' = toWebview + 1]_vars
  /\ (cmd = "removeBg" => <>Ready)

\* the end of C22 alone, for both commands
C22_EventuallyReady == <>Ready

\* the handlers that call composeAndRender() and can run within a gesture
RenderStep ==
  \/ \E x \in PointerXs(canvas.w) : PointerDown(x)
  \/ \E x \in PointerXs(canvas.w) : PointerMove(x)
  \/ \E f \in BgFiles \cap Decodable : BgLoaded(f)
  \/ RemoveBg

\* the coverage the mask would have if the gesture of state s ended now
CoverageIfReleased(s) == commitStroke(s.maskCanvas, s.strokeCanvas, s.mode).px

\* C23: in a gesture over an opaque original, the foreground that render
\* draws has, pixel by pixel, the coverage the mask would have after a
\* release in the current mode: for a render from any state of a gesture,
\* and on the display after each handler that renders within a gesture.
\* Render changes neither the mask nor the stroke buffer: over such a
\* handler the mask is the same, and the stroke buffer is the same or has
\* the segment (or first dab) the handler itself drew.
C23_PreviewMatchesCommit ==
  /\ [](drawing /\ originalImg # "null" =>
          \A x \in Pixels(canvas.w) :
             composeAndRender(EditorState).px[x].fg.a
               = CoverageIfReleased(EditorState)[x])
  /\ [][drawing' /\ RenderStep =>
          /\ \A x \in Pixels(canvas'.w) :
               canvas'.px[x].fg.a
                 = commitStroke(maskCanvas', strokeCanvas', mode').px[x]
          /\ maskCanvas' = maskCanvas
          /\ \/ strokeCanvas' = strokeCanvas
             \/ strokeCanvas' = drawStroke(strokeCanvas, lastX, lastX', brushSize)
             \/ strokeCanvas' = drawStroke(clearStroke(strokeCanvas),
                                           lastX', lastX', brushSize)]_vars

\* C23 witness: in a restoring gesture the display shows the original at a
\* pixel the mask does not keep and the stroke covers
C23_Witness ==
  /\ Ready /\ drawing /\ mode = "restore"
  /\ canvas = composeAndRender(EditorState)
  /\ \E x \in Pixels(canvas.w) :
       /\ maskCanvas.px[x] = 0
       /\ strokeCanvas.px[x] = Opaque
       /\ canvas.px[x].fg.a = Opaque

\* C24: the release of a gesture applies the stroke buffer to the mask by
\* the mode of that moment, whatever the mode was when the gesture began:
\* in restore mode the mask becomes opaque where the stroke is opaque, in
\* erase mode transparent, and where the stroke is empty the mask is kept.
C24_CommitByModeAtRelease ==
  [][drawing /\ PointerUp =>
       /\ maskCanvas' = commitStroke(maskCanvas, strokeCanvas, mode)
       /\ \A x \in Pixels(maskCanvas.w) :
            /\ AlphaAt(strokeCanvas, x) = Opaque =>
                 maskCanvas'.px[x] = (IF mode = "restore" THEN Opaque ELSE 0)
            /\ AlphaAt(strokeCanvas, x) = 0 =>
                 maskCanvas'.px[x] = maskCanvas.px[x]]_vars

\* C24 witness: the one gesture so far began in erase mode and has been
\* released in restore mode; the mask is opaque at a pixel where the cutout
\* is transparent
C24_Witness ==
  /\ Ready /\ ~drawing
  /\ gestures = 1
  /\ modeAtBegin = "erase"
  /\ mode = "restore"
  /\ \E x \in Pixels(maskCanvas.w) :
       /\ CutoutAlphaAt(x) = 0
       /\ maskCanvas.px[x] = Opaque

\* C25: when no background load is pending, the background in effect is
\* the one of the user's last request: the file chosen last if it decodes,
\* none if the last request was the removal.
C25_LastRequestWins ==
  (bgPending = {} /\ lastBgRequest \in Decodable \cup {"null"}) =>
     bgImg = lastBgRequest

\* C26: with overwrite false the output path computed for a save names no
\* existing file, and the file a save of an initialized session writes does
\* not exist when it is written, also when a second accept is handled while the first save is
\* suspended.
C26_SaveNeverOverwrites ==
  /\ [](getOutputPathPng(files) \notin files)
  /\ [][\A i \in 1 .. Len(saveTasks) :
          Ready /\ SaveWrite(i) => saveTasks[i].outPath \notin files]_vars

====
